---- MODULE Spec2Model ----
(***************************************************************************)
(* Model of am2321.c (userland build): the AM2321 measurement session      *)
(* (measure), the bounded retry loop (measure_retry), main, and the pure   *)
(* functions check_err, check_crc, calc_data, calc_hum and calc_temp.      *)
(*                                                                         *)
(* register_data is a char[8].  Whether plain char is signed is chosen by  *)
(* the build (unsigned on ARM Linux, signed on x86), so charSigned is a    *)
(* choice made in Init.  The buffer holds the raw bytes 0..255; CharVal    *)
(* gives the int a read of a char element yields.  Array indices are the   *)
(* source's (0..7).  A left shift of a negative int is modelled as the     *)
(* multiplication by 256 that gcc and clang produce.                       *)
(***************************************************************************)
EXTENDS Integers, Sequences, FiniteSets, TLC

VARIABLES
  pc,             \* position of the single thread of control
  charSigned,     \* whether the build's plain char is signed
  nargs,          \* number of options getopt has returned so far
  format,         \* main's local `format` (indeterminate until assigned)
  register_data,  \* am2321_data.register_data, raw bytes, indices 0..7
  call,           \* 0 before, 1 = warm-up measure_retry, 2 = real one
  count,          \* measure_retry's local `count`
  results,        \* return values of measure within this measure_retry
  sleeps,         \* usleep durations issued by this measure_retry
  retv,           \* return value of the measure_retry that returned last
  mret,           \* return value of the measure that returned last
  failCause,      \* which step made the last measure return -1
  ops,            \* transport calls and delays of the current attempt
  lastRead,       \* << frame >> once read_i2c_slave delivered in this attempt
  checks,         \* check_err / check_crc calls of the current attempt
  nHandles,       \* number of handles gen_i2c_slave has created
  nOpen,          \* handles initialised and not yet terminated
  refreshes,      \* usleep durations issued by main
  output,         \* what main printed on stdout
  values,         \* << temp, hum >> main decoded for printing, else << >>
  exitStatus,     \* main's return value
  fnRet,          \* result of the pure function applied last
  flipped         \* whether a CRC bit of register_data has been flipped

vars == << pc, charSigned, nargs, format, register_data, call, count,
           results, sleeps, retv, mret, failCause, ops, lastRead, checks,
           nHandles, nOpen, refreshes, output, values, exitStatus, fnRet,
           flipped >>

----------------------------------------------------------------------------
(* Program constants *)

AM2321_ID == 92
I2C_SLAVE_MAX_RETRY == 5
AM2321_WAIT_WAKEUP == 800
AM2321_WAIT_WRITEMODE == 1500
AM2321_WAIT_READMODE == 30
AM2321_WAIT_REFRESH == 2000000
RETRY_WAIT == 300000

(* Bound on the length of the command line *)
MaxArgs == 2

None == "none"

----------------------------------------------------------------------------
(* Integer helpers.  The loops are written as functions, which TLC       *)
(* applies to evaluated arguments.                                         *)

(* C's ^ on non-negative ints *)
BitXor[a \in Nat, b \in Nat] ==
  IF a = 0 THEN b
  ELSE IF b = 0 THEN a
  ELSE ((a + b) % 2) + 2 * BitXor[a \div 2, b \div 2]

(* int value of a char element holding raw byte b *)
CharVal(b) == IF charSigned /\ b >= 128 THEN b - 256 ELSE b

(* (unsigned short) v for an int v in -128..255 *)
ToUShort(v) == IF v < 0 THEN v + 65536 ELSE v

MkFrame(s) == [i \in 0..7 |-> s[i + 1]]

----------------------------------------------------------------------------
(* check_err *)

check_err(data) == IF CharVal(data[2]) >= 128 THEN -1 ELSE 0

----------------------------------------------------------------------------
(* check_crc *)

(* lines 173-180: the inner loop, j iterations left *)
CrcShifts[c \in Nat, j \in 0..8] ==
  IF j = 0 THEN c
  ELSE IF c % 2 = 1 THEN CrcShifts[BitXor[c \div 2, 40961], j - 1]
  ELSE CrcShifts[c \div 2, j - 1]

(* lines 172-180: one iteration of the outer loop on char value ch *)
CrcByte(c, ch) == CrcShifts[BitXor[c, ToUShort(ch)], 8]

(* lines 168-181: clc_crcsum after the outer loop *)
clc_crcsum(data) ==
  LET loop[i \in 0..6, c \in Nat] ==
        IF i < 6 THEN loop[i + 1, CrcByte(c, CharVal(data[i]))] ELSE c
  IN  loop[0, 65535]

(* line 167 *)
rcv_crcsum(data) == CharVal(data[7]) * 256 + CharVal(data[6])

(* variant of check_crc that compares the low bytes only *)
check_crc_LowByte(data) ==
  IF CharVal(data[6]) = clc_crcsum(data) % 256 THEN 0 ELSE -1

(* lines 165-191 *)
check_crc(data) == IF rcv_crcsum(data) = clc_crcsum(data) THEN 0 ELSE -1

----------------------------------------------------------------------------
(* calc_data, calc_hum, calc_temp, calc_discomfort.  A double is modelled  *)
(* exactly, as the fraction num / den.                                     *)

(* lines 95-98: the char parameters are promoted to int *)
calc_data(high, low) ==
  [num |-> CharVal(high) * 256 + CharVal(low), den |-> 10]

(* lines 107-110 *)
calc_hum(data) == calc_data(data[2], data[3])

(* lines 119-122 *)
calc_temp(data) == calc_data(data[4], data[5])

(* lines 132-139: 0.81 t + 0.01 h (0.99 t - 14.3) + 46.3 with t and h in    *)
(* tenths, over the common denominator 10^6                                *)
calc_discomfort(data) ==
  LET h == calc_hum(data).num
      t == calc_temp(data).num
  IN  [num |-> 81000 * t + 99 * h * t - 14300 * h + 46300000,
       den |-> 1000000]

----------------------------------------------------------------------------
(* Frames the sensor may deliver.  The device appends the reflected CRC16  *)
(* of bytes 0..5 (low byte first), computed on unsigned bytes.             *)

DeviceCrc(s) ==
  LET loop[i \in 1..7, c \in Nat] ==
        IF i <= 6 THEN loop[i + 1, CrcShifts[BitXor[c, s[i]], 8]] ELSE c
  IN  loop[1, 65535]

WithCrc(s) ==
  MkFrame(s \o << DeviceCrc(s) % 256, DeviceCrc(s) \div 256 >>)

FlipBit(data, i, k) ==
  LET b == data[i]
      w == 2 ^ k
  IN  [data EXCEPT ![i] = IF (b \div w) % 2 = 1 THEN b - w ELSE b + w]

GoodFrame == WithCrc(<< 3, 4, 2, 10, 1, 0 >>)
LowFrame == WithCrc(<< 3, 4, 1, 0, 1, 13 >>)
ErrFrame == WithCrc(<< 3, 4, 128, 0, 0, 0 >>)
BadCrcFrame == FlipBit(GoodFrame, 6, 0)
ZeroFrame == MkFrame(<< 0, 0, 0, 0, 0, 0, 0, 0 >>)

Frames == { GoodFrame, LowFrame, ErrFrame, BadCrcFrame }

FormatValues == { "c", "j", "r", "h", "other" }
Options == { "c", "j", "r", "h" }

----------------------------------------------------------------------------
(* Transport trace of one attempt *)

Op(name, arg, ok) == [op |-> name, arg |-> arg, ok |-> ok]

Called(name) == \E i \in 1..Len(ops) : ops[i].op = name
Succeeded(name) == \E i \in 1..Len(ops) : ops[i].op = name /\ ops[i].ok

----------------------------------------------------------------------------
(* Initial state: main entered, locals indeterminate *)

Init ==
  /\ pc = "main_getopt"
  /\ charSigned \in BOOLEAN
  /\ nargs = 0
  /\ format \in FormatValues
  /\ register_data \in Frames \cup { ZeroFrame }
  /\ call = 0
  /\ count = 0
  /\ results = << >>
  /\ sleeps = << >>
  /\ retv = None
  /\ mret = None
  /\ failCause = None
  /\ ops = << >>
  /\ lastRead = << >>
  /\ checks = << >>
  /\ nHandles = 0
  /\ nOpen = 0
  /\ refreshes = << >>
  /\ output = None
  /\ values = << >>
  /\ exitStatus = None
  /\ fnRet = None
  /\ flipped = FALSE

pureVars == << fnRet, flipped >>
mainVars == << nargs, format, refreshes, output, values, exitStatus >>
retryVars == << call, count, sleeps, retv >>
attemptVars ==
  << mret, failCause, results, ops, lastRead, checks, nHandles, nOpen >>

----------------------------------------------------------------------------
(* measure *)

(* measure returns -1 from the step named cause *)
MeasureFail(cause) ==
  /\ mret' = -1
  /\ failCause' = cause
  /\ results' = Append(results, -1)
  /\ pc' = "retry_test"

MeasureContinue(next) ==
  /\ pc' = next
  /\ UNCHANGED << mret, failCause, results >>

(* variant of MeasureGen that clears the caller's buffer first *)
MeasureGen_ClearBuffer ==
  /\ pc = "retry_call"
  /\ nHandles' = nHandles + 1
  /\ ops' = << >>
  /\ lastRead' = << >>
  /\ checks' = << >>
  /\ mret' = None
  /\ failCause' = None
  /\ register_data' = ZeroFrame
  /\ pc' = "m_init"
  /\ UNCHANGED << charSigned, results, nOpen >>
  /\ UNCHANGED << mainVars, retryVars, pureVars >>

(* lines 205-206: gen_i2c_slave creates the handle of this attempt *)
MeasureGen ==
  /\ pc = "retry_call"
  /\ nHandles' = nHandles + 1
  /\ ops' = << >>
  /\ lastRead' = << >>
  /\ checks' = << >>
  /\ mret' = None
  /\ failCause' = None
  /\ pc' = "m_init"
  /\ UNCHANGED << charSigned, register_data, results, nOpen >>
  /\ UNCHANGED << mainVars, retryVars, pureVars >>

(* lines 207-209 *)
MeasureInit ==
  /\ pc = "m_init"
  /\ \E ok \in BOOLEAN :
       /\ ops' = Append(ops, Op("init", << AM2321_ID >>, ok))
       /\ IF ok
            THEN /\ nOpen' = nOpen + 1
                 /\ MeasureContinue("m_wakeup")
            ELSE /\ nOpen' = nOpen
                 /\ MeasureFail("init")
  /\ UNCHANGED << charSigned, register_data, lastRead, checks, nHandles >>
  /\ UNCHANGED << mainVars, retryVars, pureVars >>

(* variant of MeasureWakeup without the quiescence delay *)
MeasureWakeup_NoDelay ==
  /\ pc = "m_wakeup"
  /\ \E ok \in BOOLEAN :
       /\ ops' = Append(ops, Op("write", << >>, ok))
       /\ IF ok THEN MeasureContinue("m_writemode") ELSE MeasureFail("wakeup")
  /\ UNCHANGED << charSigned, register_data, lastRead, checks, nHandles,
                  nOpen >>
  /\ UNCHANGED << mainVars, retryVars, pureVars >>

(* line 212, wakeup_am2321 (lines 77-85) *)
MeasureWakeup ==
  /\ pc = "m_wakeup"
  /\ \E ok \in BOOLEAN :
       IF ok
         THEN /\ ops' = ops \o << Op("write", << >>, TRUE),
                                  Op("usleep", << AM2321_WAIT_WAKEUP >>, TRUE) >>
              /\ MeasureContinue("m_writemode")
         ELSE /\ ops' = Append(ops, Op("write", << >>, FALSE))
              /\ MeasureFail("wakeup")
  /\ UNCHANGED << charSigned, register_data, lastRead, checks, nHandles,
                  nOpen >>
  /\ UNCHANGED << mainVars, retryVars, pureVars >>

(* lines 217-220, write_mode_am2321 (lines 59-68) *)
MeasureWriteMode ==
  /\ pc = "m_writemode"
  /\ \E ok \in BOOLEAN :
       IF ok
         THEN /\ ops' = ops \o << Op("write", << >>, TRUE),
                                  Op("usleep", << AM2321_WAIT_WRITEMODE >>, TRUE) >>
              /\ MeasureContinue("m_command")
         ELSE /\ ops' = Append(ops, Op("write", << >>, FALSE))
              /\ MeasureFail("writemode")
  /\ UNCHANGED << charSigned, register_data, lastRead, checks, nHandles,
                  nOpen >>
  /\ UNCHANGED << mainVars, retryVars, pureVars >>

(* lines 221-227 *)
MeasureCommand ==
  /\ pc = "m_command"
  /\ \E ok \in BOOLEAN :
       /\ ops' = Append(ops, Op("write", << 3, 0, 4 >>, ok))
       /\ IF ok THEN MeasureContinue("m_read") ELSE MeasureFail("command")
  /\ UNCHANGED << charSigned, register_data, lastRead, checks, nHandles,
                  nOpen >>
  /\ UNCHANGED << mainVars, retryVars, pureVars >>

(* variant of MeasureRead that reads into a buffer of its own *)
MeasureRead_LocalBuffer ==
  /\ pc = "m_read"
  /\ \E ok \in BOOLEAN :
       /\ ops' = ops \o << Op("usleep", << AM2321_WAIT_READMODE >>, TRUE),
                           Op("read", << 8 >>, ok) >>
       /\ IF ok
            THEN /\ \E f \in Frames : lastRead' = << f >>
                 /\ MeasureContinue("m_term")
            ELSE /\ lastRead' = lastRead
                 /\ MeasureFail("read")
  /\ UNCHANGED << charSigned, register_data, checks, nHandles, nOpen >>
  /\ UNCHANGED << mainVars, retryVars, pureVars >>

(* lines 230-233.  A failed read may have stored part of a frame. *)
MeasureRead ==
  /\ pc = "m_read"
  /\ \E ok \in BOOLEAN :
       /\ ops' = ops \o << Op("usleep", << AM2321_WAIT_READMODE >>, TRUE),
                           Op("read", << 8 >>, ok) >>
       /\ IF ok
            THEN /\ \E f \in Frames :
                      /\ register_data' = f
                      /\ lastRead' = << f >>
                 /\ MeasureContinue("m_term")
            ELSE /\ register_data' \in Frames \cup { register_data }
                 /\ lastRead' = lastRead
                 /\ MeasureFail("read")
  /\ UNCHANGED << charSigned, checks, nHandles, nOpen >>
  /\ UNCHANGED << mainVars, retryVars, pureVars >>

(* lines 235-237.  A failed term_i2c_slave may or may not have closed. *)
MeasureTerm ==
  /\ pc = "m_term"
  /\ \E ok \in BOOLEAN :
       /\ ops' = Append(ops, Op("term", << >>, ok))
       /\ IF ok
            THEN /\ nOpen' = nOpen - 1
                 /\ MeasureContinue("m_destroy")
            ELSE /\ nOpen' \in { nOpen, nOpen - 1 }
                 /\ MeasureFail("term")
  /\ UNCHANGED << charSigned, register_data, lastRead, checks, nHandles >>
  /\ UNCHANGED << mainVars, retryVars, pureVars >>

(* variant of MeasureDestroy that ignores the result of the release *)
MeasureDestroy_IgnoreResult ==
  /\ pc = "m_destroy"
  /\ \E ok \in BOOLEAN :
       /\ ops' = Append(ops, Op("destroy", << >>, ok))
       /\ MeasureContinue("m_check_err")
  /\ UNCHANGED << charSigned, register_data, lastRead, checks, nHandles,
                  nOpen >>
  /\ UNCHANGED << mainVars, retryVars, pureVars >>

(* lines 239-241 *)
MeasureDestroy ==
  /\ pc = "m_destroy"
  /\ \E ok \in BOOLEAN :
       /\ ops' = Append(ops, Op("destroy", << >>, ok))
       /\ IF ok THEN MeasureContinue("m_check_err") ELSE MeasureFail("destroy")
  /\ UNCHANGED << charSigned, register_data, lastRead, checks, nHandles,
                  nOpen >>
  /\ UNCHANGED << mainVars, retryVars, pureVars >>

(* variant of MeasureCheckErr that goes on to the CRC check regardless *)
MeasureCheckErr_NoReturn ==
  /\ pc = "m_check_err"
  /\ checks' = Append(checks, Op("check_err", << >>,
                                 check_err(register_data) = 0))
  /\ MeasureContinue("m_check_crc")
  /\ UNCHANGED << charSigned, register_data, ops, lastRead, nHandles, nOpen >>
  /\ UNCHANGED << mainVars, retryVars, pureVars >>

(* lines 243-245 *)
MeasureCheckErr ==
  /\ pc = "m_check_err"
  /\ checks' = Append(checks, Op("check_err", << >>,
                                 check_err(register_data) = 0))
  /\ IF check_err(register_data) = -1
       THEN MeasureFail("status")
       ELSE MeasureContinue("m_check_crc")
  /\ UNCHANGED << charSigned, register_data, ops, lastRead, nHandles, nOpen >>
  /\ UNCHANGED << mainVars, retryVars, pureVars >>

(* lines 247-250 *)
MeasureCheckCrc ==
  /\ pc = "m_check_crc"
  /\ checks' = Append(checks, Op("check_crc", << >>,
                                 check_crc(register_data) = 0))
  /\ IF check_crc(register_data) = -1
       THEN MeasureFail("crc")
       ELSE /\ mret' = 0
            /\ failCause' = None
            /\ results' = Append(results, 0)
            /\ pc' = "retry_test"
  /\ UNCHANGED << charSigned, register_data, ops, lastRead, nHandles, nOpen >>
  /\ UNCHANGED << mainVars, retryVars, pureVars >>

----------------------------------------------------------------------------
(* measure_retry *)

ReturnPoint == IF call = 1 THEN "main_refresh" ELSE "main_print"

(* variants of the budget test: off by one; an open failure made fatal *)
BudgetExhausted_OffByOne == I2C_SLAVE_MAX_RETRY <= count + 1

BudgetExhausted_OpenFatal ==
  I2C_SLAVE_MAX_RETRY < count + 1 \/ failCause = "init"

(* line 283: the budget test, applied to the incremented count *)
BudgetExhausted == I2C_SLAVE_MAX_RETRY < count + 1

(* line 282 false, line 291 *)
RetrySuccess ==
  /\ pc = "retry_test"
  /\ mret = 0
  /\ retv' = 0
  /\ pc' = ReturnPoint
  /\ UNCHANGED << charSigned, register_data, call, count, sleeps >>
  /\ UNCHANGED << mainVars, attemptVars, pureVars >>

(* variant of RetryGiveUp that sleeps before testing the budget *)
RetryGiveUp_SleepFirst ==
  /\ pc = "retry_test"
  /\ mret = -1
  /\ I2C_SLAVE_MAX_RETRY < count + 1
  /\ count' = count + 1
  /\ sleeps' = Append(sleeps, RETRY_WAIT)
  /\ retv' = -1
  /\ pc' = IF call = 1 THEN "main_refresh" ELSE "main_print"
  /\ UNCHANGED << charSigned, register_data, call >>
  /\ UNCHANGED << mainVars, attemptVars, pureVars >>

(* lines 282-286 *)
RetryGiveUp ==
  /\ pc = "retry_test"
  /\ mret = -1
  /\ BudgetExhausted
  /\ count' = count + 1
  /\ retv' = -1
  /\ pc' = ReturnPoint
  /\ UNCHANGED << charSigned, register_data, call, sleeps >>
  /\ UNCHANGED << mainVars, attemptVars, pureVars >>

(* variant of RetryAgain that does not count the failed attempt *)
RetryAgain_NoCount ==
  /\ pc = "retry_test"
  /\ mret = -1
  /\ ~BudgetExhausted
  /\ count' = count
  /\ sleeps' = Append(sleeps, RETRY_WAIT)
  /\ pc' = "retry_call"
  /\ UNCHANGED << charSigned, register_data, call, retv >>
  /\ UNCHANGED << mainVars, attemptVars, pureVars >>

(* lines 282-283, 287-289 *)
RetryAgain ==
  /\ pc = "retry_test"
  /\ mret = -1
  /\ ~BudgetExhausted
  /\ count' = count + 1
  /\ sleeps' = Append(sleeps, RETRY_WAIT)
  /\ pc' = "retry_call"
  /\ UNCHANGED << charSigned, register_data, call, retv >>
  /\ UNCHANGED << mainVars, attemptVars, pureVars >>

----------------------------------------------------------------------------
(* main *)

(* lines 311-313: one iteration of the getopt loop *)
MainGetopt ==
  /\ pc = "main_getopt"
  /\ nargs < MaxArgs
  /\ \E o \in Options : format' = o
  /\ nargs' = nargs + 1
  /\ UNCHANGED << pc, charSigned, register_data, refreshes, output, values,
                  exitStatus >>
  /\ UNCHANGED << retryVars, attemptVars, pureVars >>

(* line 311: getopt returns -1 *)
MainGetoptEnd ==
  /\ pc = "main_getopt"
  /\ pc' = "main_format"
  /\ UNCHANGED << charSigned, register_data >>
  /\ UNCHANGED << mainVars, retryVars, attemptVars, pureVars >>

(* variant of MainHelp that prints the help and goes on to measure *)
MainHelp_FallThrough ==
  /\ pc = "main_format"
  /\ format = "h"
  /\ output' = "help"
  /\ call' = 1
  /\ count' = 0
  /\ results' = << >>
  /\ sleeps' = << >>
  /\ pc' = "retry_call"
  /\ UNCHANGED << charSigned, register_data, retv >>
  /\ UNCHANGED << nargs, format, refreshes, values, exitStatus >>
  /\ UNCHANGED << mret, failCause, ops, lastRead, checks, nHandles, nOpen >>
  /\ UNCHANGED pureVars

(* lines 314-317 *)
MainHelp ==
  /\ pc = "main_format"
  /\ format = "h"
  /\ output' = "help"
  /\ exitStatus' = 1
  /\ pc' = "exit"
  /\ UNCHANGED << charSigned, register_data, nargs, format, refreshes, values >>
  /\ UNCHANGED << retryVars, attemptVars, pureVars >>

(* line 318: enter the warm-up measure_retry (line 280: count = 0) *)
MainWarmup ==
  /\ pc = "main_format"
  /\ format # "h"
  /\ call' = 1
  /\ count' = 0
  /\ results' = << >>
  /\ sleeps' = << >>
  /\ pc' = "retry_call"
  /\ UNCHANGED << charSigned, register_data, retv >>
  /\ UNCHANGED << mret, failCause, ops, lastRead, checks, nHandles, nOpen >>
  /\ UNCHANGED << mainVars, pureVars >>

(* lines 319-320: refresh delay, then enter the real measure_retry *)
MainRefresh ==
  /\ pc = "main_refresh"
  /\ refreshes' = Append(refreshes, AM2321_WAIT_REFRESH)
  /\ call' = 2
  /\ count' = 0
  /\ results' = << >>
  /\ sleeps' = << >>
  /\ pc' = "retry_call"
  /\ UNCHANGED << charSigned, register_data, retv, nargs, format, output,
                  values, exitStatus >>
  /\ UNCHANGED << mret, failCause, ops, lastRead, checks, nHandles, nOpen >>
  /\ UNCHANGED pureVars

(* variant of MainPrint that reports a failed measurement in the status *)
MainPrint_FailStatus ==
  /\ pc = "main_print"
  /\ output' = IF retv = -1 THEN "fail"
               ELSE IF format = "c" THEN "csv"
               ELSE IF format = "j" THEN "json"
               ELSE "human"
  /\ values' = IF retv = -1 THEN << >>
               ELSE << calc_temp(register_data), calc_hum(register_data),
                       calc_discomfort(register_data) >>
  /\ exitStatus' = IF retv = -1 THEN 1 ELSE 0
  /\ pc' = "exit"
  /\ UNCHANGED << charSigned, register_data, nargs, format, refreshes >>
  /\ UNCHANGED << retryVars, attemptVars, pureVars >>

(* lines 320-353 *)
MainPrint ==
  /\ pc = "main_print"
  /\ output' = IF retv = -1 THEN "fail"
               ELSE IF format = "c" THEN "csv"
               ELSE IF format = "j" THEN "json"
               ELSE "human"
  /\ values' = IF retv = -1 THEN << >>
               ELSE << calc_temp(register_data), calc_hum(register_data),
                       calc_discomfort(register_data) >>
  /\ exitStatus' = 0
  /\ pc' = "exit"
  /\ UNCHANGED << charSigned, register_data, nargs, format, refreshes >>
  /\ UNCHANGED << retryVars, attemptVars, pureVars >>

Next ==
  \/ MainGetopt
  \/ MainGetoptEnd
  \/ MainHelp
  \/ MainWarmup
  \/ MainRefresh
  \/ MainPrint
  \/ MeasureGen
  \/ MeasureInit
  \/ MeasureWakeup
  \/ MeasureWriteMode
  \/ MeasureCommand
  \/ MeasureRead
  \/ MeasureTerm
  \/ MeasureDestroy
  \/ MeasureCheckErr
  \/ MeasureCheckCrc
  \/ RetrySuccess
  \/ RetryGiveUp
  \/ RetryAgain

Spec == Init /\ [][Next]_vars

(* the program is sequential and every transport call and delay returns,   *)
(* so the step at the current program point is eventually taken            *)
FairSpec == Spec /\ WF_vars(Next)

----------------------------------------------------------------------------
(* check_err applied to every status byte, in both builds *)

StatusInputs == { [ZeroFrame EXCEPT ![2] = b] : b \in 0..255 }

PureInit(start, inputs) ==
  /\ pc = start
  /\ charSigned \in BOOLEAN
  /\ register_data \in inputs
  /\ nargs = 0
  /\ format = "other"
  /\ call = 0
  /\ count = 0
  /\ results = << >>
  /\ sleeps = << >>
  /\ retv = None
  /\ mret = None
  /\ failCause = None
  /\ ops = << >>
  /\ lastRead = << >>
  /\ checks = << >>
  /\ nHandles = 0
  /\ nOpen = 0
  /\ refreshes = << >>
  /\ output = None
  /\ values = << >>
  /\ exitStatus = None
  /\ fnRet = None
  /\ flipped = FALSE

InitErr == PureInit("fn_err", StatusInputs)

ApplyCheckErr ==
  /\ pc = "fn_err"
  /\ fnRet' = check_err(register_data)
  /\ pc' = "fn_err_done"
  /\ UNCHANGED << charSigned, register_data, flipped >>
  /\ UNCHANGED << mainVars, retryVars, attemptVars >>

NextErr == ApplyCheckErr

SpecErr == InitErr /\ [][NextErr]_vars

----------------------------------------------------------------------------
(* check_crc applied to frames with sampled register bytes, in both builds. *)
(* For each 6-byte prefix the CRC bytes tried are the device's and every    *)
(* pair whose rcv_crcsum can equal a 16-bit value c: low byte c % 256, high *)
(* byte c / 256 or, when a signed low byte borrows, c / 256 + 1.            *)

Byte0Samples == { 3, 131 }
Byte1Samples == { 4, 255 }
Byte2Samples == { 0, 2, 127, 128 }
Byte3Samples == { 10, 128, 255 }
Byte4Samples == { 0, 1, 129 }
Byte5Samples == { 0, 13, 200 }

CrcPrefixes ==
  { << b0, b1, b2, b3, b4, b5 >> :
      b0 \in Byte0Samples, b1 \in Byte1Samples, b2 \in Byte2Samples,
      b3 \in Byte3Samples, b4 \in Byte4Samples, b5 \in Byte5Samples }

CrcPairs(c) ==
  { << c % 256, h >> : h \in { c \div 256, (c \div 256 + 1) % 256 } }

CrcCandidates(p) ==
  CrcPairs(DeviceCrc(p))
    \cup CrcPairs(clc_crcsum(MkFrame(p \o << 0, 0 >>)))

CrcInputs(p) == { MkFrame(p \o q) : q \in CrcCandidates(p) }

InitCrc == \E p \in CrcPrefixes : PureInit("fn_crc", CrcInputs(p))

ApplyCheckCrc ==
  /\ pc = "fn_crc"
  /\ fnRet' = check_crc(register_data)
  /\ pc' = "fn_crc_done"
  /\ UNCHANGED << charSigned, register_data, flipped >>
  /\ UNCHANGED << mainVars, retryVars, attemptVars >>

(* one bit of byte [6] or [7] of a frame that passed is flipped *)
FlipCrcBit ==
  /\ pc = "fn_crc_done"
  /\ ~flipped
  /\ fnRet = 0
  /\ \E i \in { 6, 7 } : \E k \in 0..7 :
       register_data' = FlipBit(register_data, i, k)
  /\ flipped' = TRUE
  /\ fnRet' = None
  /\ pc' = "fn_crc"
  /\ UNCHANGED charSigned
  /\ UNCHANGED << mainVars, retryVars, attemptVars >>

NextCrc == ApplyCheckCrc \/ FlipCrcBit

SpecCrc == InitCrc /\ [][NextCrc]_vars

----------------------------------------------------------------------------
(* calc_hum and calc_temp applied to every register pair, in both builds:  *)
(* the frame holds (high, low) in bytes [2],[3] and in bytes [4],[5].      *)

CalcInputs ==
  { [i \in 0..7 |-> IF i \in { 2, 4 } THEN h ELSE IF i \in { 3, 5 } THEN l ELSE 0] :
      h \in 0..255, l \in 0..255 }

InitCalc == PureInit("fn_calc", CalcInputs)

ApplyCalcHum ==
  /\ pc = "fn_calc"
  /\ fnRet' = calc_hum(register_data)
  /\ pc' = "fn_hum_done"
  /\ UNCHANGED << charSigned, register_data, flipped >>
  /\ UNCHANGED << mainVars, retryVars, attemptVars >>

ApplyCalcTemp ==
  /\ pc = "fn_calc"
  /\ fnRet' = calc_temp(register_data)
  /\ pc' = "fn_temp_done"
  /\ UNCHANGED << charSigned, register_data, flipped >>
  /\ UNCHANGED << mainVars, retryVars, attemptVars >>

NextCalc == ApplyCalcHum \/ ApplyCalcTemp

SpecCalc == InitCalc /\ [][NextCalc]_vars

----------------------------------------------------------------------------
(* Properties *)

(* measure_retry has returned to main and main has not moved on *)
Returned == pc \in { "main_refresh", "main_print" }

AllFailed == \A i \in 1..Len(results) : results[i] = -1

(* k - 1 failed attempts followed by a successful one *)
FailedThenSucceeded(k) ==
  /\ Len(results) = k
  /\ results[k] = 0
  /\ \A i \in 1..(k - 1) : results[i] = -1

(* the transport calls and delays of a complete session, in order *)
SessionOps ==
  << << "init", << 92 >> >>,
     << "write", << >> >>,
     << "usleep", << 800 >> >>,
     << "write", << >> >>,
     << "usleep", << 1500 >> >>,
     << "write", << 3, 0, 4 >> >>,
     << "usleep", << 30 >> >>,
     << "read", << 8 >> >>,
     << "term", << >> >>,
     << "destroy", << >> >> >>

OpsDone == [i \in 1..Len(ops) |-> << ops[i].op, ops[i].arg >>]

(* C1: when measure returns after init_i2c_slave succeeded, term_i2c_slave *)
(* and destroy_i2c_slave have both been called on the handle, on every     *)
(* exit path.                                                              *)
C1_ReleasedOnEveryExit ==
  (pc = "retry_test" /\ Succeeded("init"))
    => (Called("term") /\ Called("destroy"))

(* C2: if every attempt fails, measure_retry returns -1 after exactly 6    *)
(* invocations of measure, and never makes more than 6.                    *)
C2_SixAttemptsThenFailure ==
  /\ Len(results) <= 6
  /\ (Returned /\ AllFailed) => (retv = -1 /\ Len(results) = 6)

C2_Witness == Returned /\ call = 2 /\ AllFailed /\ retv = -1 /\ Len(results) = 6

(* C3: for every k in 1..6, if the first k-1 attempts fail and the k-th    *)
(* succeeds, measure_retry returns 0 after exactly k invocations, makes no *)
(* further attempt, and the buffer holds the frame the k-th attempt read.  *)
C3_SuccessOnKthAttempt ==
  \A k \in 1..6 :
    FailedThenSucceeded(k) =>
      /\ pc \in { "retry_test", "main_refresh", "main_print", "exit" }
      /\ pc # "retry_test" => retv = 0
      /\ lastRead = << register_data >>

C3_Witness ==
  /\ Returned
  /\ call = 2
  /\ FailedThenSucceeded(5)
  /\ retv = 0
  /\ lastRead = << register_data >>

(* C4: a failed attempt, whatever step caused it, is followed by another   *)
(* attempt while fewer than 6 attempts have been made; measure_retry       *)
(* returns -1 only from the 6th failed attempt.                            *)
FailCauses ==
  { "init", "wakeup", "writemode", "command", "read", "term", "destroy",
    "status", "crc" }

C4_FailureKindNeverFatal ==
  [][ \A cause \in FailCauses :
        (pc = "retry_test" /\ mret = -1 /\ failCause = cause) =>
          IF Len(results) < 6
            THEN pc' = "retry_call" /\ retv' = retv
            ELSE pc' \in { "main_refresh", "main_print" } /\ retv' = -1
    ]_vars

C4_Witness ==
  /\ pc = "retry_call"
  /\ call = 2
  /\ failCause = "crc"
  /\ Len(results) = 5
  /\ retv = -1

(* C5: at most one transport session is open at any time.                  *)
C5_AtMostOneOpen == nOpen <= 1

(* C6: the transport operations of an attempt happen in the order of       *)
(* SessionOps with none skipped or repeated, an attempt that reaches the   *)
(* end of the session has done all of them, and a failed operation is the  *)
(* last one of its attempt.                                                *)
C6_SessionOrder ==
  /\ Len(ops) <= Len(SessionOps)
  /\ OpsDone = SubSeq(SessionOps, 1, Len(ops))
  /\ \A i \in 1..(Len(ops) - 1) : ops[i].ok
  /\ pc \in { "m_check_err", "m_check_crc" } =>
       (OpsDone = SessionOps /\ ops[Len(ops)].ok)

C6_Witness ==
  /\ pc = "m_check_err"
  /\ OpsDone = SessionOps
  /\ \A i \in 1..Len(ops) : ops[i].ok

(* C7: measure_retry sleeps 300 ms exactly once between two consecutive    *)
(* attempts and not after the last: n attempts, n - 1 sleeps.              *)
C7_SleepBetweenAttempts ==
  /\ \A i \in 1..Len(sleeps) : sleeps[i] = 300000
  /\ pc = "retry_call" => Len(sleeps) = Len(results)
  /\ pc = "retry_test" => Len(sleeps) = Len(results) - 1
  /\ Returned => Len(sleeps) = Len(results) - 1

C7_Witness ==
  /\ Returned
  /\ call = 2
  /\ retv = -1
  /\ Len(results) = 6
  /\ Len(sleeps) = 5

(* C8: check_err fails exactly when frame byte [2], as an unsigned 8-bit   *)
(* value, is >= 0x80, however the build stores it in a char.               *)
C8_StatusHighBit ==
  pc = "fn_err_done" => (fnRet = -1 <=> register_data[2] >= 128)

(* C9: a frame whose bytes [6] and [7] are the low and high byte of the    *)
(* reflected CRC16 of bytes [0..5] passes check_crc.                       *)
HasDeviceCrc(data) ==
  LET c == DeviceCrc([i \in 1..6 |-> data[i - 1]])
  IN  data[6] = c % 256 /\ data[7] = c \div 256

C9_CrcRoundTrip ==
  (pc = "fn_crc_done" /\ ~flipped /\ HasDeviceCrc(register_data))
    => fnRet = 0

(* C10: flipping one bit of byte [6] or [7] of a frame that passes         *)
(* check_crc gives a frame that fails it.                                  *)
C10_CrcBitFlipDetected == (pc = "fn_crc_done" /\ flipped) => fnRet = -1

C10_Witness ==
  /\ pc = "fn_crc_done"
  /\ flipped
  /\ fnRet = -1
  /\ register_data[2] >= 128

(* C11: for all register bytes high and low in 0..255, ten times the value *)
(* of calc_data(high, low) is 256 * high + low and is never negative;      *)
(* calc_hum decodes bytes [2],[3] and calc_temp bytes [4],[5].             *)
TenTimes(v) == IF (10 * v.num) % v.den = 0 THEN (10 * v.num) \div v.den ELSE -1

C11_DecodeUnsigned ==
  /\ pc = "fn_hum_done" =>
       TenTimes(fnRet) = 256 * register_data[2] + register_data[3]
  /\ pc = "fn_temp_done" =>
       TenTimes(fnRet) = 256 * register_data[4] + register_data[5]

(* C12: the frame is validated only after the session was terminated and   *)
(* released, check_err runs before check_crc, check_crc does not run when  *)
(* check_err fails, and the attempt succeeds only if both pass.            *)
ChecksDone == [i \in 1..Len(checks) |-> checks[i].op]

C12_ValidationAfterClose ==
  /\ checks # << >> => (Succeeded("term") /\ Succeeded("destroy"))
  /\ ChecksDone = SubSeq(<< "check_err", "check_crc" >>, 1, Len(checks))
  /\ Len(checks) = 2 => checks[1].ok
  /\ (pc = "retry_test" /\ mret = 0) =>
       (Len(checks) = 2 /\ checks[1].ok /\ checks[2].ok)
  /\ (pc = "retry_test" /\ \E i \in 1..Len(checks) : ~checks[i].ok) =>
       mret = -1

C12_Witness ==
  /\ pc = "retry_test"
  /\ Len(checks) = 1
  /\ ~checks[1].ok
  /\ mret = -1
  /\ Succeeded("destroy")

(* C13: every measure_retry starts with count 0 and the full budget of 6   *)
(* attempts, every attempt starts with no session left open by an earlier  *)
(* one, creates a fresh handle, and ends with the handle it opened         *)
(* terminated and released.                                                *)
C13_NoStateAcrossRequests ==
  /\ [](/\ (pc = "retry_call" /\ results = << >>) => count = 0
        /\ (Returned /\ retv = -1) => Len(results) = 6
        /\ pc = "retry_call" => nOpen = 0
        /\ (pc = "retry_test" /\ Succeeded("init")) => Succeeded("destroy"))
  /\ [][pc = "retry_call" => nHandles' = nHandles + 1]_vars

(* C14: provided every transport call and delay returns, every             *)
(* measure_retry that is entered returns, with success or failure, after   *)
(* at most 6 attempts and at most 5 sleeps.                                *)
C14_RetryTerminates ==
  /\ [](Len(results) <= I2C_SLAVE_MAX_RETRY + 1 /\ Len(sleeps) <= I2C_SLAVE_MAX_RETRY)
  /\ (pc \in { "retry_call", "retry_test" })
       ~> (Returned /\ retv \in {0, -1}
             /\ Len(results) <= I2C_SLAVE_MAX_RETRY + 1
             /\ Len(sleeps) <= I2C_SLAVE_MAX_RETRY)

C14_Witness ==
  /\ Returned
  /\ call = 1
  /\ retv = 0
  /\ Len(results) = I2C_SLAVE_MAX_RETRY + 1
  /\ Len(sleeps) = I2C_SLAVE_MAX_RETRY

(* C15: main makes the warm-up request, discards its result, waits 2 s and *)
(* makes the real request whatever the warm-up returned; when the real     *)
(* request fails it prints the failure message and no values and exits 0.  *)
C15_WarmupThenReal ==
  /\ [](/\ call \in {0, 1} => refreshes = << >>
        /\ call = 2 => refreshes = << AM2321_WAIT_REFRESH >>
        /\ (pc = "exit" /\ output # "help") => call = 2
        /\ (pc = "exit" /\ call = 2 /\ retv = -1) =>
             (output = "fail" /\ values = << >> /\ exitStatus = 0))
  /\ [][pc = "main_refresh" =>
          (retv \in {0, -1} /\ call = 1 /\ call' = 2 /\ count' = 0
             /\ pc' = "retry_call")]_vars

C15_Witness ==
  /\ pc = "exit"
  /\ call = 2
  /\ retv = -1
  /\ output = "fail"
  /\ values = << >>
  /\ exitStatus = 0

(* C16: when the option selected on the command line is -h, main prints    *)
(* the help and exits non-zero, and no transport operation and no delay    *)
(* occurs in the execution.                                                *)
C16_HelpWithoutMeasurement ==
  (pc # "main_getopt" /\ nargs > 0 /\ format = "h") =>
    /\ pc \in { "main_format", "exit" }
    /\ call = 0
    /\ nHandles = 0
    /\ ops = << >>
    /\ sleeps = << >>
    /\ refreshes = << >>
    /\ pc = "exit" => (output = "help" /\ exitStatus # 0)

C16_Witness ==
  /\ pc = "exit"
  /\ nargs > 0
  /\ format = "h"
  /\ output = "help"
  /\ exitStatus = 1
  /\ ops = << >>

(* C17: run with no option at all, main performs the measurement and       *)
(* prints the human-readable form on success; it never takes the help,     *)
(* CSV or JSON path.                                                       *)
C17_DefaultFormatHuman ==
  (pc = "exit" /\ nargs = 0) =>
    /\ call = 2
    /\ output \in { "human", "fail" }
    /\ retv = 0 => output = "human"

(* C18: measure returns 0 exactly when all seven transport steps succeeded *)
(* and the frame passes check_err and check_crc; a failed term or release  *)
(* after a valid frame was read makes the attempt fail.                    *)
AllStepsSucceeded ==
  /\ OpsDone = SessionOps
  /\ \A i \in 1..Len(ops) : ops[i].ok

C18_SuccessIffAllSteps ==
  pc = "retry_test" =>
    /\ mret \in {0, -1}
    /\ mret = 0 <=> /\ AllStepsSucceeded
                    /\ check_err(register_data) = 0
                    /\ check_crc(register_data) = 0
    /\ mret = results[Len(results)]

C18_Witness ==
  /\ pc = "retry_test"
  /\ failCause = "destroy"
  /\ lastRead = << register_data >>
  /\ check_err(register_data) = 0
  /\ check_crc(register_data) = 0
  /\ mret = -1

(* C19: register_data is written only by the read step; a successful read  *)
(* overwrites it even when a check then fails; main decodes and prints     *)
(* values only from the frame that passed both checks in the last,         *)
(* successful attempt of the real request.                                 *)
C19_BufferOnlyFromRead ==
  /\ [][pc # "m_read" => register_data' = register_data]_vars
  /\ []((pc = "retry_test" /\ ~Called("read")) => lastRead = << >>)
  /\ []((pc = "retry_test" /\ Succeeded("read")) =>
          lastRead = << register_data >>)
  /\ []((pc = "exit" /\ output \in { "csv", "json", "human" }) =>
          values # << >>)
  /\ []((pc = "exit" /\ values # << >>) =>
          /\ call = 2
          /\ retv = 0
          /\ mret = 0
          /\ results[Len(results)] = 0
          /\ lastRead = << register_data >>
          /\ check_err(register_data) = 0
          /\ check_crc(register_data) = 0
          /\ values = << calc_temp(register_data), calc_hum(register_data),
                         calc_discomfort(register_data) >>)

C19_Witness ==
  /\ pc = "exit"
  /\ values # << >>
  /\ Len(results) > 1
  /\ lastRead = << register_data >>

====
